---- MODULE Spec2Model ----
(***************************************************************************)
(* PVZTrain hook DLL: the control-flow interceptor (dllmain.cpp), the      *)
(* command bridge (bridge.cpp), the action/query surface over the target's *)
(* memory (game.cpp) and the state serializer (state.cpp).                 *)
(*                                                                         *)
(* Text on the wire is a sequence of characters (one-character strings;    *)
(* the NUL byte is the symbol NUL).  The target's memory is the record     *)
(* mem; its external routines are modelled by their effect on mem.         *)
(***************************************************************************)
EXTENDS Integers, Sequences, FiniteSets, TLC

\* Only({e(v) : v \in {x}}) is e(x), with x evaluated once and v bound to
\* its value: the way a local of the code holds a value it computed.
Only(S) == CHOOSE x \in S : TRUE

(***************************************************************************)
(* Characters and text                                                     *)
(***************************************************************************)
NUL == "NUL"
LF == "\n"
CR == "\r"
SP == " "

\* std::isspace in the "C" locale, over the characters the model uses
IsSpace(c) == c \in {SP, CR, LF, "\t"}

Digits == {"0", "1", "2", "3", "4", "5", "6", "7", "8", "9"}

DigitVal(c) ==
    CASE c = "0" -> 0 [] c = "1" -> 1 [] c = "2" -> 2 [] c = "3" -> 3
      [] c = "4" -> 4 [] c = "5" -> 5 [] c = "6" -> 6 [] c = "7" -> 7
      [] c = "8" -> 8 [] c = "9" -> 9

INT_MAX == 2147483647
INT_MIN == -INT_MAX - 1

\* index of the first occurrence of c in s at or after position i, 0 if none
\* (std::string::find, npos = 0)
RECURSIVE FindFrom(_, _, _)
FindFrom(s, c, i) ==
    IF i > Len(s) THEN 0
    ELSE IF s[i] = c THEN i
    ELSE FindFrom(s, c, i + 1)

Find(s, c) == FindFrom(s, c, 1)

\* std::string data(buffer): the C string held by buffer, which ends at the
\* first NUL byte (buffer[bytesRead] = '\0' is the last one at the latest)
CString(buffer) ==
    LET z == Find(buffer, NUL)
    IN  IF z = 0 THEN buffer ELSE SubSeq(buffer, 1, z - 1)

(***************************************************************************)
(* std::istringstream: the unread characters and the fail bit              *)
(***************************************************************************)
IStringStream(s) == [buf |-> s, fail |-> FALSE]

RECURSIVE SkipWs(_)
SkipWs(s) ==
    IF s # <<>> /\ IsSpace(Head(s)) THEN SkipWs(Tail(s)) ELSE s

\* length of the longest prefix of s without white space
RECURSIVE TokenLen(_)
TokenLen(s) ==
    IF s = <<>> \/ IsSpace(Head(s)) THEN 0 ELSE 1 + TokenLen(Tail(s))

\* iss >> std::string
ExtractString(iss) ==
    LET s == SkipWs(iss.buf)
        n == TokenLen(s)
    IN  IF iss.fail \/ n = 0
        THEN [val |-> <<>>, iss |-> [buf |-> s, fail |-> TRUE]]
        ELSE [val |-> SubSeq(s, 1, n),
              iss |-> [buf |-> SubSeq(s, n + 1, Len(s)), fail |-> FALSE]]

RECURSIVE DigitRunLen(_)
DigitRunLen(s) ==
    IF s = <<>> \/ Head(s) \notin Digits THEN 0 ELSE 1 + DigitRunLen(Tail(s))

\* a run of decimal digits as the negated number it writes, from the
\* negated value acc of the digits before; 1 when the number is above 2^31
RECURSIVE DigitRunNeg(_, _)
DigitRunNeg(s, acc) ==
    IF s = <<>> THEN acc
    ELSE LET d == DigitVal(Head(s))
             least == INT_MIN \div 10
         IN  IF acc < least + 1 \/ (acc = least + 1 /\ d > 8) THEN 1
             ELSE DigitRunNeg(Tail(s), acc * 10 - d)

\* iss >> int: optional sign, then decimal digits up to the first other
\* character; no digit or a value outside int sets the fail bit
ExtractInt(iss) ==
    LET s == SkipWs(iss.buf)
        signed == s # <<>> /\ Head(s) \in {"+", "-"}
        minus == signed /\ Head(s) = "-"
        body == IF signed THEN Tail(s) ELSE s
        n == DigitRunLen(body)
        neg == DigitRunNeg(SubSeq(body, 1, n), 0)
        failed == [val |-> 0, iss |-> [buf |-> s, fail |-> TRUE]]
    IN  IF iss.fail \/ n = 0 THEN failed
        ELSE IF neg = 1 \/ (neg = INT_MIN /\ ~minus) THEN failed
        ELSE [val |-> IF minus THEN neg ELSE -neg,
              iss |-> [buf |-> SubSeq(body, n + 1, Len(body)), fail |-> FALSE]]

(***************************************************************************)
(* The target's memory.  base is the word at Addr::BASE; board, gameUI and *)
(* seedChooser are fields of the object base points to; the rest are       *)
(* fields of the board.  plants and zombies are the records behind         *)
(* plantArray and zombieArray, indexed from 0.  A null pointer is 0.       *)
(***************************************************************************)
APP_PTR == 41943040
BOARD_PTR == 50331648
CHOOSER_PTR == 58720256
PLANT_ARRAY_PTR == 67108864
ZOMBIE_ARRAY_PTR == 75497472

PLANT_SIZE == 332
SCAN_LIMIT == 200
CARD_STRIDE == 60
CARD_BASE == 164

\* number of records of each entity array the model holds
Slots == 201

SlotIdx == 0 .. (Slots - 1)

DeadRec == [row |-> 0, col |-> 0, dead |-> TRUE]
LiveRec(r, c) == [row |-> r, col |-> c, dead |-> FALSE]

\* An entity array is held as the function from the indices of the records
\* that were ever written to those records; every other record of the
\* array is DeadRec.
AllDead == <<>>

\* the i-th record of the array recs
Rec(recs, i) == IF i \in DOMAIN recs THEN recs[i] ELSE DeadRec

\* the array recs with its i-th record set to r
Put(recs, i, r) == (i :> r) @@ recs

\* the fields of a board that is not there
NoBoard ==
    [sun |-> 0, wave |-> 0, scene |-> 0, total_waves |-> 0, game_clock |-> 0,
     plantArray |-> 0, plantMax |-> 0, plants |-> AllDead,
     zombieArray |-> 0, zombieMax |-> 0, zombies |-> AllDead]

\* memory with no simulation loaded: the root pointer is null
NoSim == [base |-> 0, board |-> 0, gameUI |-> 0, seedChooser |-> 0, b |-> NoBoard]

(***************************************************************************)
(* game.cpp: the object accessor.  Each read returns the value and the set *)
(* of object pointers it read through (derefs); 0 in derefs is a read      *)
(* through a null pointer.                                                 *)
(***************************************************************************)
GetBase(m) == m.base

\* GetBoard without its if (!base) return 0
GetBoard_NoNullCheck(m) == [val |-> m.board, derefs |-> {GetBase(m)}]

GetBoard(m) ==
    LET base == GetBase(m)
    IN  IF base = 0 THEN [val |-> 0, derefs |-> {}]
        ELSE [val |-> m.board, derefs |-> {base}]

GetGameUI(m) ==
    LET base == GetBase(m)
    IN  IF base = 0 THEN [val |-> 0, derefs |-> {}]
        ELSE [val |-> m.gameUI, derefs |-> {base}]

\* a board field read by GetSun, GetWave and GetScene
BoardField(m, v) ==
    LET board == GetBoard(m)
    IN  IF board.val = 0 THEN [val |-> 0, derefs |-> board.derefs]
        ELSE [val |-> v, derefs |-> board.derefs \cup {board.val}]

GetSun(m) == BoardField(m, m.b.sun)
GetWave(m) == BoardField(m, m.b.wave)
GetScene(m) == BoardField(m, m.b.scene)

IsInGame(m) ==
    LET ui == GetGameUI(m)
    IN  [val |-> (ui.val = 3), derefs |-> ui.derefs]

(***************************************************************************)
(* The target's own routines, called by address from game.cpp.  They have  *)
(* no return value; each is modelled by what it does to the memory the     *)
(* bridge reads.  Removal marks the record dead.                           *)
(***************************************************************************)
Call(fn, args) == [fn |-> fn, args |-> args]

\* the least element of a non-empty set of integers
Least(S) == CHOOSE i \in S : \A j \in S : i <= j

\* lowest index of a dead plant record, Slots if none
FirstDead(plants) ==
    LET dead == {i \in SlotIdx : Rec(plants, i).dead}
    IN  IF dead = {} THEN Slots ELSE Least(dead)

\* a board as the target sets it up
FreshBoard ==
    [NoBoard EXCEPT !.sun = 50, !.total_waves = 10,
                    !.plantArray = PLANT_ARRAY_PTR, !.zombieArray = ZOMBIE_ARRAY_PTR]

\* Board::AddPlant(board, col, row, type, imitatorType) at FUNC_PUT_PLANT:
\* the plant takes the first free record
AddPlant(m, col, row) ==
    LET i == FirstDead(m.b.plants)
    IN  IF m.b.plantArray = 0 \/ i >= Slots THEN m
        ELSE [m EXCEPT !.b.plants = Put(@, i, LiveRec(row, col)),
                       !.b.plantMax = IF i + 1 > @ THEN i + 1 ELSE @]

\* the removal routine at FUNC_SHOVEL, given a record's address
RemovePlant(m, plantAddr) ==
    LET i == (plantAddr - m.b.plantArray) \div PLANT_SIZE
    IN  [m EXCEPT !.b.plants = Put(@, i, [Rec(@, i) EXCEPT !.dead = TRUE])]

\* the routine at FUNC_ROCK: leaves card selection for the round
RockRoutine(m) == [m EXCEPT !.gameUI = 3, !.seedChooser = 0]

\* the routine at FUNC_MAKE_NEW_BOARD: a new board replaces the old one
MakeNewBoardRoutine(m) == [m EXCEPT !.board = BOARD_PTR, !.b = FreshBoard]

\* the routine at FUNC_ENTER_GAME: a new board, in card selection
EnterGameRoutine(m) ==
    [m EXCEPT !.board = BOARD_PTR, !.b = FreshBoard,
              !.gameUI = 2, !.seedChooser = CHOOSER_PTR]

\* the routine at FUNC_BACK_TO_MAIN: the board is dropped, the menu shown
BackToMainRoutine(m) ==
    [m EXCEPT !.board = 0, !.b = NoBoard, !.gameUI = 1, !.seedChooser = 0]

(***************************************************************************)
(* game.cpp: the action verbs.  Each returns its bool (ret), the pointers  *)
(* read through (derefs), the external calls issued (calls) and the        *)
(* memory afterwards (mem).                                                *)
(***************************************************************************)
Failed(m, derefs) == [ret |-> FALSE, derefs |-> derefs, calls |-> <<>>, mem |-> m]

Done(m, derefs, call) == [ret |-> TRUE, derefs |-> derefs, calls |-> <<call>>, mem |-> m]

\* PutPlant that also wants the round to be running
PutPlant_OnlyInGame(row, col, type, m) ==
    LET board == GetBoard(m)
    IN  IF board.val = 0 \/ ~IsInGame(m).val THEN Failed(m, board.derefs)
        ELSE Done(AddPlant(m, col, row), board.derefs,
                  Call("AddPlant", <<board.val, col, row, type, -1>>))

PutPlant(row, col, type, m) ==
    LET board == GetBoard(m)
    IN  IF board.val = 0 THEN Failed(m, board.derefs)
        ELSE Done(AddPlant(m, col, row), board.derefs,
                  Call("AddPlant", <<board.val, col, row, type, -1>>))

\* the scan without its break: the last match is kept
ShovelScan_NoBreak(m, plantMax, row, col) ==
    LET hits == {i \in 0 .. (plantMax - 1) :
                   LET rec == Rec(m.b.plants, i)
                   IN  ~rec.dead /\ rec.row = row /\ rec.col = col}
    IN  IF hits = {} THEN 0
        ELSE m.b.plantArray + (CHOOSE i \in hits : \A j \in hits : j <= i) * PLANT_SIZE

\* the loop of Shovel: the address of the first record with an index below
\* plantMax that is not dead and is at (row, col), 0 if there is none
ShovelScan(m, plantMax, row, col) ==
    LET hits == {i \in 0 .. (plantMax - 1) :
                   LET rec == Rec(m.b.plants, i)
                   IN  ~rec.dead /\ rec.row = row /\ rec.col = col}
    IN  IF hits = {} THEN 0 ELSE m.b.plantArray + Least(hits) * PLANT_SIZE

Shovel(row, col, m) ==
    LET board == GetBoard(m)
        plantArray == m.b.plantArray
        plantMax == m.b.plantMax
        derefs == board.derefs \cup {board.val}
        clamped == IF plantMax > SCAN_LIMIT THEN SCAN_LIMIT ELSE plantMax
        plantAddr == ShovelScan(m, clamped, row, col)
    IN  IF board.val = 0 THEN Failed(m, board.derefs)
        ELSE IF plantArray = 0 \/ plantMax <= 0 THEN Failed(m, derefs)
        ELSE IF plantAddr = 0 THEN Failed(m, derefs \cup {plantArray})
        ELSE Done(RemovePlant(m, plantAddr), derefs \cup {plantArray},
                  Call("RemovePlant", <<plantAddr>>))

\* FireCob as a stub that reports success
FireCob_Succeeds(x, y, m) == [Failed(m, {}) EXCEPT !.ret = TRUE]

FireCob(x, y, m) == Failed(m, {})

\* ChooseCard without its if (gameUI != 2) return false
ChooseCard_NoPhaseCheck(type, m) ==
    LET base == GetBase(m)
        seedChooser == m.seedChooser
        cardAddr == type * CARD_STRIDE + CARD_BASE + seedChooser
    IN  IF base = 0 THEN Failed(m, {})
        ELSE IF seedChooser = 0 THEN Failed(m, {base})
        ELSE Done(m, {base}, Call("ChooseCard", <<cardAddr>>))

ChooseCard(type, m) ==
    LET base == GetBase(m)
        gameUI == GetGameUI(m)
        seedChooser == m.seedChooser
        cardAddr == type * CARD_STRIDE + CARD_BASE + seedChooser
    IN  IF base = 0 THEN Failed(m, {})
        ELSE IF gameUI.val # 2 THEN Failed(m, gameUI.derefs)
        ELSE IF seedChooser = 0 THEN Failed(m, {base})
        ELSE Done(m, {base}, Call("ChooseCard", <<cardAddr>>))

Rock(m) ==
    LET base == GetBase(m)
        gameUI == GetGameUI(m)
        seedChooser == m.seedChooser
    IN  IF base = 0 THEN Failed(m, {})
        ELSE IF gameUI.val # 2 THEN Failed(m, gameUI.derefs)
        ELSE IF seedChooser = 0 THEN Failed(m, {base})
        ELSE Done(RockRoutine(m), {base}, Call("Rock", <<seedChooser, base>>))

MakeNewBoard(m) ==
    LET base == GetBase(m)
    IN  IF base = 0 THEN Failed(m, {})
        ELSE Done(MakeNewBoardRoutine(m), {}, Call("MakeNewBoard", <<base>>))

EnterGame(mode, m) ==
    LET base == GetBase(m)
    IN  IF base = 0 THEN Failed(m, {})
        ELSE Done(EnterGameRoutine(m), {}, Call("EnterGame", <<mode, 1, base>>))

BackToMain(m) ==
    LET base == GetBase(m)
        gameUI == GetGameUI(m)
    IN  IF base = 0 THEN Failed(m, {})
        ELSE IF gameUI.val # 3 THEN Failed(m, gameUI.derefs)
        ELSE Done(BackToMainRoutine(m), gameUI.derefs, Call("BackToMain", <<base>>))

(***************************************************************************)
(* state.cpp: the state serializer                                         *)
(***************************************************************************)
\* the counting loops of GetGameState: how many of the records 0 .. max-1
\* have the dead flag clear
CountLive(recs, max) == Cardinality({i \in 0 .. (max - 1) : ~Rec(recs, i).dead})

\* GameStateInfo as GetGameState fills it
GameStateInfo(m) ==
    LET board == GetBoard(m)
        b == m.b
        counted(array, max, recs) ==
            IF array # 0 /\ max > 0 /\ max <= SCAN_LIMIT
            THEN CountLive(recs, max) ELSE 0
    IN  [sun |-> GetSun(m).val,
         wave |-> GetWave(m).val,
         scene |-> GetScene(m).val,
         in_game |-> IsInGame(m).val,
         total_waves |-> IF board.val # 0 THEN b.total_waves ELSE 0,
         game_clock |-> IF board.val # 0 THEN b.game_clock ELSE 0,
         plant_count |->
             IF board.val # 0 THEN counted(b.plantArray, b.plantMax, b.plants) ELSE 0,
         zombie_count |->
             IF board.val # 0 THEN counted(b.zombieArray, b.zombieMax, b.zombies) ELSE 0]

\* the operands streamed into oss, in order: "{", then per field its key,
\* its value and a separator
\* the operands with the two counts streamed in the other order
StatePieces_CountsSwapped(m) ==
    Only({<< "{",
             "\"sun\":", ToString(info.sun), ",",
             "\"wave\":", ToString(info.wave), ",",
             "\"total_waves\":", ToString(info.total_waves), ",",
             "\"scene\":", ToString(info.scene), ",",
             "\"game_clock\":", ToString(info.game_clock), ",",
             "\"in_game\":", (IF info.in_game THEN "true" ELSE "false"), ",",
             "\"plant_count\":", ToString(info.plant_count), ",",
             "\"zombie_count\":", ToString(info.zombie_count),
             "}" >> : info \in {GameStateInfo(m)}})

StatePieces(m) ==
    Only({<< "{",
             "\"sun\":", ToString(info.sun), ",",
             "\"wave\":", ToString(info.wave), ",",
             "\"total_waves\":", ToString(info.total_waves), ",",
             "\"scene\":", ToString(info.scene), ",",
             "\"game_clock\":", ToString(info.game_clock), ",",
             "\"in_game\":", (IF info.in_game THEN "true" ELSE "false"), ",",
             "\"zombie_count\":", ToString(info.zombie_count), ",",
             "\"plant_count\":", ToString(info.plant_count),
             "}" >> : info \in {GameStateInfo(m)}})

\* oss.str(): the pieces from the i-th on, joined
RECURSIVE Joined(_, _)
Joined(pieces, i) ==
    IF i > Len(pieces) THEN "" ELSE pieces[i] \o Joined(pieces, i + 1)

GetGameState(m) == Joined(StatePieces(m), 1)

\* the pointers GetGameState reads through
StateDerefs(m) ==
    LET board == GetBoard(m)
    IN  GetSun(m).derefs \cup GetWave(m).derefs \cup GetScene(m).derefs
          \cup IsInGame(m).derefs \cup board.derefs
          \cup (IF board.val # 0
                THEN {board.val}
                       \cup (IF m.b.plantArray # 0 /\ m.b.plantMax > 0
                                  /\ m.b.plantMax <= SCAN_LIMIT
                             THEN {m.b.plantArray} ELSE {})
                       \cup (IF m.b.zombieArray # 0 /\ m.b.zombieMax > 0
                                  /\ m.b.zombieMax <= SCAN_LIMIT
                             THEN {m.b.zombieArray} ELSE {})
                ELSE {})

(***************************************************************************)
(* bridge.cpp: the command parser                                          *)
(***************************************************************************)
V_PLANT == <<"P", "L", "A", "N", "T">>
V_SHOVEL == <<"S", "H", "O", "V", "E", "L">>
V_FIRE == <<"F", "I", "R", "E">>
V_RESET == <<"R", "E", "S", "E", "T">>
V_ENTER == <<"E", "N", "T", "E", "R">>
V_CHOOSE == <<"C", "H", "O", "O", "S", "E">>
V_ROCK == <<"R", "O", "C", "K">>
V_BACK == <<"B", "A", "C", "K">>
V_STATE == <<"S", "T", "A", "T", "E">>

OK == "OK\n"
ERR_PARAMS == "ERR Invalid parameters\n"
ERR_RESET == "ERR Failed to reset\n"
ERR_START == "ERR Failed to start\n"
ERR_BACK == "ERR Failed to back\n"
ERR_UNKNOWN == "ERR Unknown command\n"

\* what handling one command did: the response, the action invoked (fn and
\* its arguments, <<>> when none was), what the action did
Outcome(resp, invoked, r) ==
    [resp |-> resp, invoked |-> invoked,
     derefs |-> r.derefs, calls |-> r.calls, mem |-> r.mem]

\* a verb's branch: the action fn ran on args and returned what result
\* holds
Reply(result, fn, args, err) ==
    Only({Outcome(IF r.ret THEN OK ELSE err, <<Call(fn, args)>>, r) : r \in {result}})

\* a verb's branch when its arguments did not parse: no action is invoked
Rejected(m, err) == Outcome(err, <<>>, Failed(m, {}))

\* iss >> a >> b >> ...: the results of n extractions of an int in a row
RECURSIVE ExtractInts(_, _)
ExtractInts(iss, n) ==
    IF n = 0 THEN <<>>
    ELSE Only({<<r>> \o ExtractInts(r.iss, n - 1) : r \in {ExtractInt(iss)}})

\* the first token of cmd and the results a of the extractions that may
\* follow it: a[k].iss.fail says whether k ints in a row were not there
ParseCommand(cmd) ==
    Only({[command |-> c.val, a |-> ExtractInts(c.iss, 3)] :
            c \in {ExtractString(IStringStream(cmd))}})

\* the branches of ProcessCommand
Dispatch(command, a, m) ==
    IF command = V_PLANT THEN
        IF ~a[3].iss.fail
        THEN Reply(PutPlant(a[1].val, a[2].val, a[3].val, m),
                   "PutPlant", <<a[1].val, a[2].val, a[3].val>>, ERR_PARAMS)
        ELSE Rejected(m, ERR_PARAMS)
    ELSE IF command = V_SHOVEL THEN
        IF ~a[2].iss.fail
        THEN Reply(Shovel(a[1].val, a[2].val, m), "Shovel",
                   <<a[1].val, a[2].val>>, ERR_PARAMS)
        ELSE Rejected(m, ERR_PARAMS)
    ELSE IF command = V_FIRE THEN
        IF ~a[2].iss.fail
        THEN Reply(FireCob(a[1].val, a[2].val, m), "FireCob",
                   <<a[1].val, a[2].val>>, ERR_PARAMS)
        ELSE Rejected(m, ERR_PARAMS)
    ELSE IF command = V_RESET THEN
        Reply(MakeNewBoard(m), "MakeNewBoard", <<>>, ERR_RESET)
    ELSE IF command = V_ENTER THEN
        IF ~a[1].iss.fail
        THEN Reply(EnterGame(a[1].val, m), "EnterGame", <<a[1].val>>, ERR_PARAMS)
        ELSE Rejected(m, ERR_PARAMS)
    ELSE IF command = V_CHOOSE THEN
        IF ~a[1].iss.fail
        THEN Reply(ChooseCard(a[1].val, m), "ChooseCard", <<a[1].val>>, ERR_PARAMS)
        ELSE Rejected(m, ERR_PARAMS)
    ELSE IF command = V_ROCK THEN
        Reply(Rock(m), "Rock", <<>>, ERR_START)
    ELSE IF command = V_BACK THEN
        Reply(BackToMain(m), "BackToMain", <<>>, ERR_BACK)
    ELSE IF command = V_STATE THEN
        Only({[resp |-> state \o "\n",
               invoked |-> <<Call("GetGameState", <<>>)>>,
               derefs |-> StateDerefs(m), calls |-> <<>>, mem |-> m] :
                 state \in {GetGameState(m)}})
    ELSE Rejected(m, ERR_UNKNOWN)

ProcessCommand(cmd, m) ==
    Only({Dispatch(p.command, p.a, m) : p \in {ParseCommand(cmd)}})

(***************************************************************************)
(* bridge.cpp: the line loop of ProcessCommands                            *)
(***************************************************************************)
\* one entry per command handed to ProcessCommand: the command, the memory
\* before, what ProcessCommand did, and the responses handed to send
Dispatched(cmd, m, o) ==
    [cmd |-> cmd, before |-> m, resp |-> o.resp, invoked |-> o.invoked,
     derefs |-> o.derefs, calls |-> o.calls, mem |-> o.mem, sent |-> <<o.resp>>]

RECURSIVE LineLoop(_, _)

\* cmd without one trailing carriage return
StripCR(cmd) ==
    IF cmd # <<>> /\ cmd[Len(cmd)] = CR THEN SubSeq(cmd, 1, Len(cmd) - 1) ELSE cmd

\* one turn of the loop, pos being where the line feed is
LineAt(data, pos, m) ==
    Only({IF line.cmd # <<>>
          THEN Only({<<Dispatched(line.cmd, m, o)>> \o LineLoop(line.rest, o.mem) :
                       o \in {ProcessCommand(line.cmd, m)}})
          ELSE LineLoop(line.rest, m) :
            line \in {[cmd |-> StripCR(SubSeq(data, 1, pos - 1)),
                       rest |-> SubSeq(data, pos + 1, Len(data))]}})

\* while ((pos = data.find('\n')) != npos) { ... }: the entries of the
\* commands dispatched, in order
LineLoop(data, m) ==
    Only({IF pos = 0 THEN <<>> ELSE LineAt(data, pos, m) : pos \in {Find(data, LF)}})

\* the memory after the commands of log, m if there were none
MemAfter(log, m) == IF log = <<>> THEN m ELSE log[Len(log)].mem

(***************************************************************************)
(* The client: the command lines it sends and the packets one recv         *)
(* delivers                                                                *)
(***************************************************************************)
L_PLANT == <<"P", "L", "A", "N", "T", SP, "3", SP, "5", SP, "2">>
L_SHOVEL == <<"S", "H", "O", "V", "E", "L", SP, "3", SP, "5">>
L_SHOVEL11 == <<"S", "H", "O", "V", "E", "L", SP, "1", SP, "1">>
L_FIRE == <<"F", "I", "R", "E", SP, "1", SP, "2">>
L_RESET == <<"R", "E", "S", "E", "T">>
L_ENTER == <<"E", "N", "T", "E", "R", SP, "1">>
L_CHOOSE == <<"C", "H", "O", "O", "S", "E", SP, "2">>
L_ROCK == <<"R", "O", "C", "K">>
L_BACK == <<"B", "A", "C", "K">>
L_STATE == <<"S", "T", "A", "T", "E">>
L_PLANT_ODD == <<"P", "L", "A", "N", "T", SP, "3", SP, "5", SP, "-", "7">>
L_PLANT_FEW == <<"P", "L", "A", "N", "T", SP, "3", SP, "5">>
L_SHOVEL_FEW == <<"S", "H", "O", "V", "E", "L", SP, "3">>
L_FIRE_FEW == <<"F", "I", "R", "E", SP, "1">>
L_ENTER_FEW == <<"E", "N", "T", "E", "R">>
L_CHOOSE_FEW == <<"C", "H", "O", "O", "S", "E">>
L_PLANT_MANY == <<"P", "L", "A", "N", "T", SP, "3", SP, "5", SP, "2", SP, "9">>
L_SHOVEL_MANY == <<"S", "H", "O", "V", "E", "L", SP, "3", SP, "5", SP, "1">>
L_FIRE_MANY == <<"F", "I", "R", "E", SP, "1", SP, "2", SP, "3">>
L_ENTER_MANY == <<"E", "N", "T", "E", "R", SP, "1", SP, "2">>
L_CHOOSE_MANY == <<"C", "H", "O", "O", "S", "E", SP, "2", SP, "3">>
L_RESET_MANY == <<"R", "E", "S", "E", "T", SP, "5">>
L_ROCK_MANY == <<"R", "O", "C", "K", SP, "1">>
L_BACK_MANY == <<"B", "A", "C", "K", SP, "1">>
L_STATE_MANY == <<"S", "T", "A", "T", "E", SP, "1">>
L_PLANT_NAN == <<"P", "L", "A", "N", "T", SP, "3", SP, "x", SP, "2">>
L_SHOVEL_NAN == <<"S", "H", "O", "V", "E", "L", SP, "x", SP, "5">>
L_FIRE_NAN == <<"F", "I", "R", "E", SP, "1", SP, "y">>
L_ENTER_NAN == <<"E", "N", "T", "E", "R", SP, "x">>
L_CHOOSE_NAN == <<"C", "H", "O", "O", "S", "E", SP, "x">>
L_PLANT_TRAIL == <<"P", "L", "A", "N", "T", SP, "3", SP, "5", SP, "2", "x">>
L_ENTER_BIG == <<"E", "N", "T", "E", "R", SP, "2", "1", "4", "7", "4", "8", "3", "6", "4", "8">>
L_LOWER == <<"p", "l", "a", "n", "t", SP, "1", SP, "2", SP, "3">>
L_HELLO == <<"H", "E", "L", "L", "O">>
L_SPACES == <<SP, SP>>
L_STATES == <<"S", "T", "A", "T", "E", "S">>

\* lines that follow the command table
GoodLines ==
    {L_PLANT, L_PLANT_ODD, L_SHOVEL, L_SHOVEL11, L_FIRE, L_RESET, L_ENTER, L_CHOOSE, L_ROCK,
     L_BACK, L_STATE}

\* known verbs with too few, too many or non-integer arguments
BadLines ==
    {L_PLANT_FEW, L_SHOVEL_FEW, L_FIRE_FEW, L_ENTER_FEW, L_CHOOSE_FEW,
     L_PLANT_MANY, L_SHOVEL_MANY, L_FIRE_MANY, L_ENTER_MANY, L_CHOOSE_MANY,
     L_RESET_MANY, L_ROCK_MANY, L_BACK_MANY, L_STATE_MANY,
     L_PLANT_NAN, L_SHOVEL_NAN, L_FIRE_NAN, L_ENTER_NAN, L_CHOOSE_NAN,
     L_PLANT_TRAIL, L_ENTER_BIG}

\* first tokens outside the command table
UnknownLines == {L_LOWER, L_HELLO, L_SPACES, L_STATES}

ClientLines == GoodLines \cup BadLines \cup UnknownLines

\* what one read can deliver: one line, several lines, lines ended by CR LF,
\* empty lines, a line in two parts (alone and next to whole lines), and
\* bytes around a NUL
Packets ==
    {l \o <<LF>> : l \in ClientLines}
      \cup {L_PLANT \o <<LF>> \o L_SHOVEL \o <<LF>>,
            L_STATE \o <<CR, LF>> \o L_SHOVEL \o <<CR, LF>> \o L_STATE \o <<LF>>,
            L_ENTER \o <<LF>> \o L_CHOOSE \o <<LF>> \o L_ROCK \o <<LF>>,
            <<LF>>, <<CR, LF>>,
            L_STATE \o <<LF, LF>> \o L_BACK \o <<LF>>,
            L_BACK \o <<LF>> \o L_SHOVEL \o <<LF>>,
            <<"P", "L", "A">>,
            L_STATE \o <<LF>> \o <<"P", "L", "A">>,
            <<"N", "T", SP, "3", SP, "5", SP, "2", LF>>,
            <<"N", "T", SP, "3", SP, "5", SP, "2", LF>> \o L_STATE \o <<LF>>,
            L_STATE \o <<LF, NUL>> \o L_STATE \o <<LF>>}

\* recv(g_clientSocket, buffer, sizeof(buffer) - 1, 0) reads at most this many
RECV_MAX == 1023

\* the longest unfinished line the client is let to build up
MaxPending == 3

\* the most live plants the client is let to bring about
MaxLive == 2

LivePlants(m) == Cardinality({i \in DOMAIN m.b.plants : ~m.b.plants[i].dead})

\* the bytes of s after its last line feed: the line the client has begun
\* and not ended
RECURSIVE Unfinished(_)
Unfinished(s) ==
    LET pos == Find(s, LF)
    IN  IF pos = 0 THEN s ELSE Unfinished(SubSeq(s, pos + 1, Len(s)))

(***************************************************************************)
(* The target: the memory images its own code can leave behind             *)
(***************************************************************************)
\* an array whose records 0, 1, 2, SCAN_LIMIT - 1 and SCAN_LIMIT were written
Layout(r0, r1, r2, r199, r200) ==
    (0 :> r0) @@ (1 :> r1) @@ (2 :> r2) @@ ((SCAN_LIMIT - 1) :> r199)
      @@ (SCAN_LIMIT :> r200)

DeadAt(r, c) == [row |-> r, col |-> c, dead |-> TRUE]

\* the board fields besides the plants in a round under way, with a live
\* zombie and a dead one
Round ==
    [sun |-> 175, wave |-> 3, scene |-> 2, total_waves |-> 20, game_clock |-> 1234,
     zombieArray |-> ZOMBIE_ARRAY_PTR, zombieMax |-> 2,
     zombies |-> Layout(LiveRec(2, 9), DeadAt(2, 8), DeadRec, DeadRec, DeadRec)]

Board(f, plantArray, plantMax, plants) ==
    [sun |-> f.sun, wave |-> f.wave, scene |-> f.scene, total_waves |-> f.total_waves,
     game_clock |-> f.game_clock, plantArray |-> plantArray, plantMax |-> plantMax,
     plants |-> plants, zombieArray |-> f.zombieArray, zombieMax |-> f.zombieMax,
     zombies |-> f.zombies]

\* boards of a round: a null plant array, a negative capacity, a few
\* plants, several at one place behind a dead one, a full array, a capacity
\* above the scan limit, a live record past the capacity
RoundBoards ==
    {Board(Round, 0, 2, AllDead),
     Board(Round, PLANT_ARRAY_PTR, -1, AllDead),
     Board(Round, PLANT_ARRAY_PTR, 2,
           Layout(LiveRec(3, 5), LiveRec(1, 1), DeadRec, DeadRec, DeadRec)),
     Board(Round, PLANT_ARRAY_PTR, 3,
           Layout(DeadAt(3, 5), LiveRec(3, 5), LiveRec(3, 5), DeadRec, DeadRec)),
     Board(Round, PLANT_ARRAY_PTR, SCAN_LIMIT,
           Layout(DeadRec, DeadRec, DeadRec, LiveRec(3, 5), DeadRec)),
     Board(Round, PLANT_ARRAY_PTR, SCAN_LIMIT + 1,
           Layout(LiveRec(3, 5), DeadRec, DeadRec, DeadRec, LiveRec(1, 1))),
     Board(Round, PLANT_ARRAY_PTR, 1,
           Layout(LiveRec(1, 1), LiveRec(3, 5), DeadRec, DeadRec, DeadRec))}

\* the phase and the seed chooser: menu, card selection with and without
\* its chooser, in game with and without a chooser left over
UiStates == {<<1, 0>>, <<2, 0>>, <<2, CHOOSER_PTR>>, <<3, 0>>, <<3, CHOOSER_PTR>>}

App(u, board, b) ==
    [base |-> APP_PTR, board |-> board, gameUI |-> u[1], seedChooser |-> u[2], b |-> b]

\* no simulation; every phase without a board and with a fresh one; the
\* boards of a round, in game
MemImages ==
    {NoSim}
      \cup {App(u, 0, NoBoard) : u \in UiStates}
      \cup {App(u, BOARD_PTR, FreshBoard) : u \in UiStates}
      \cup {App(<<3, 0>>, BOARD_PTR, bd) : bd \in RoundBoards}

(***************************************************************************)
(* bridge.cpp: the bridge's sockets.  The state of the bridge is the       *)
(* record br: the three globals, and of the socket library the handles     *)
(* that are open (open), the handles that closesocket was given while      *)
(* they were not open (reclosed), and the WSAStartup calls not yet matched *)
(* by a WSACleanup (wsa).                                                  *)
(***************************************************************************)
INVALID_SOCKET == -1

\* socket handles the library hands out
NHandles == 3

Handles == 1 .. NHandles

FreshHandle(br) == CHOOSE h \in Handles \ br.open : \A k \in Handles \ br.open : h <= k

\* closesocket(h)
CloseSocket(br, h) ==
    [br EXCEPT !.open = @ \ {h},
               !.reclosed = IF h \in br.open THEN @ ELSE @ \cup {h}]

BridgeInit ==
    [g_serverSocket |-> INVALID_SOCKET, g_clientSocket |-> INVALID_SOCKET,
     g_initialized |-> FALSE, open |-> {}, reclosed |-> {}, wsa |-> 0]

InitializeOutcomes == {"startup_failed", "socket_failed", "bind_failed", "listen_failed", "ok"}

\* Bridge::Initialize(port) when the library calls end as outcome says;
\* ret is the bool returned
Initialize(br, outcome) ==
    LET h == FreshHandle(br)
        started == [br EXCEPT !.wsa = @ + 1]
        created == [started EXCEPT !.g_serverSocket = h, !.open = @ \cup {h}]
        cleaned(b) == [b EXCEPT !.wsa = @ - 1]
    IN  IF br.g_initialized THEN [ret |-> TRUE, br |-> br]
        ELSE IF outcome = "startup_failed" THEN [ret |-> FALSE, br |-> br]
        ELSE IF outcome = "socket_failed"
        THEN [ret |-> FALSE,
              br |-> cleaned([started EXCEPT !.g_serverSocket = INVALID_SOCKET])]
        ELSE IF outcome \in {"bind_failed", "listen_failed"}
        THEN [ret |-> FALSE, br |-> cleaned(CloseSocket(created, h))]
        ELSE [ret |-> TRUE, br |-> [created EXCEPT !.g_initialized = TRUE]]

\* Bridge::Shutdown()
Shutdown(br) ==
    LET b1 == IF br.g_clientSocket # INVALID_SOCKET
              THEN [CloseSocket(br, br.g_clientSocket)
                      EXCEPT !.g_clientSocket = INVALID_SOCKET]
              ELSE br
        b2 == IF b1.g_serverSocket # INVALID_SOCKET
              THEN [CloseSocket(b1, b1.g_serverSocket)
                      EXCEPT !.g_serverSocket = INVALID_SOCKET]
              ELSE b1
    IN  IF b2.g_initialized
        THEN [b2 EXCEPT !.wsa = @ - 1, !.g_initialized = FALSE]
        ELSE b2

(***************************************************************************)
(* bridge.cpp: ProcessCommands, one tick                                   *)
(***************************************************************************)
\* what recv can return: bytes, 0 (the peer closed), or SOCKET_ERROR with
\* WSAEWOULDBLOCK or with another error
RecvResults ==
    {[kind |-> "data", data |-> p] : p \in {q \in Packets : Len(q) <= RECV_MAX}}
      \cup {[kind |-> k, data |-> <<>>] : k \in {"closed", "wouldblock", "error"}}

\* the record of a tick: what it came to (off: not initialized, idle: no
\* client, or the kind of recv's result), the bytes read, the unfinished
\* line the client had sent before, and the commands dispatched
Tick(kind, data, tail, log) == [kind |-> kind, data |-> data, tail |-> tail, log |-> log]

\* the passes of the while loop over data: one per line feed found
RECURSIVE LineLoopPasses(_)

\* the passes of a do ... while loop in its place
LineLoopPasses_DoWhile(data) ==
    LET pos == Find(data, LF)
    IN  1 + (IF pos = 0 THEN 0
             ELSE LineLoopPasses(SubSeq(data, pos + 1, Len(data))))

LineLoopPasses(data) ==
    LET pos == Find(data, LF)
    IN  IF pos = 0 THEN 0
        ELSE 1 + LineLoopPasses(SubSeq(data, pos + 1, Len(data)))

\* the record of a tick with what its accept step did: client is
\* g_clientSocket when the tick began, waiting whether a connection waited
\* in the backlog, accept is "skipped" (accept not called), "nobody"
\* (called, INVALID_SOCKET returned) or "accepted", passes the passes of
\* the while loop
Ticked(tick, client, waiting, accept, passes) ==
    tick @@ [client |-> client, waiting |-> waiting, accept |-> accept,
             passes |-> passes]

NoTick == Ticked(Tick("none", <<>>, <<>>, <<>>), INVALID_SOCKET, FALSE, "skipped", 0)

\* Serve with else in place of else if (bytesRead == 0 || WSAGetLastError()
\* != WSAEWOULDBLOCK)
Serve_DropsOnWouldBlock(accepted, m, tail, rcv) ==
    IF rcv.kind = "data"
    THEN Only({[br |-> accepted, mem |-> MemAfter(log, m),
                tail |-> Unfinished(tail \o rcv.data),
                tick |-> Tick("data", rcv.data, tail, log)] :
                  log \in {LineLoop(CString(rcv.data), m)}})
    ELSE [br |-> [CloseSocket(accepted, accepted.g_clientSocket)
                    EXCEPT !.g_clientSocket = INVALID_SOCKET],
          mem |-> m, tail |-> <<>>, tick |-> Tick(rcv.kind, <<>>, tail, <<>>)]

\* the part of ProcessCommands under if (g_clientSocket != INVALID_SOCKET),
\* on the bridge after the accept step
Serve(accepted, m, tail, rcv) ==
    IF rcv.kind = "data"
    THEN Only({[br |-> accepted, mem |-> MemAfter(log, m),
                tail |-> Unfinished(tail \o rcv.data),
                tick |-> Tick("data", rcv.data, tail, log)] :
                  log \in {LineLoop(CString(rcv.data), m)}})
    ELSE IF rcv.kind = "wouldblock"
    THEN [br |-> accepted, mem |-> m, tail |-> tail,
          tick |-> Tick("wouldblock", <<>>, tail, <<>>)]
    ELSE [br |-> [CloseSocket(accepted, accepted.g_clientSocket)
                    EXCEPT !.g_clientSocket = INVALID_SOCKET],
          mem |-> m, tail |-> <<>>, tick |-> Tick(rcv.kind, <<>>, tail, <<>>)]

\* the accept step without if (g_clientSocket == INVALID_SOCKET)
Accept_NoGuard(br, arrived) ==
    IF arrived
    THEN Only({[br EXCEPT !.g_clientSocket = h, !.open = @ \cup {h}] :
                 h \in {FreshHandle(br)}})
    ELSE br

\* the accept step: accept returns a new handle when a connection waits
Accept(br, arrived) ==
    IF br.g_clientSocket = INVALID_SOCKET /\ arrived
    THEN Only({[br EXCEPT !.g_clientSocket = h, !.open = @ \cup {h}] :
                 h \in {FreshHandle(br)}})
    ELSE br

\* Bridge::ProcessCommands() on bridge br and memory m; tail is the line the
\* client has begun, arrived whether a connection waits in the backlog,
\* rcv what recv returns
ProcessCommands(br, m, tail, arrived, rcv) ==
    LET acceptStep(accepted) ==
            IF accepted.g_clientSocket # br.g_clientSocket THEN "accepted"
            ELSE IF br.g_clientSocket # INVALID_SOCKET THEN "skipped"
            ELSE "nobody"
        passes(r) ==
            IF r.tick.kind = "data" THEN LineLoopPasses(CString(r.tick.data)) ELSE 0
        withAccept(r, accepted) ==
            [r EXCEPT !.tick = Ticked(r.tick, br.g_clientSocket, arrived,
                                      acceptStep(accepted), passes(r))]
    IN  IF ~br.g_initialized
        THEN [br |-> br, mem |-> m, tail |-> tail,
              tick |-> Ticked(Tick("off", <<>>, tail, <<>>),
                              br.g_clientSocket, arrived, "skipped", 0)]
        ELSE Only({Only({withAccept(r, accepted) :
                           r \in {IF accepted.g_clientSocket = INVALID_SOCKET
                                  THEN [br |-> accepted, mem |-> m, tail |-> tail,
                                        tick |-> Tick("idle", <<>>, tail, <<>>)]
                                  ELSE Serve(accepted, m, tail, rcv)}}) :
                     accepted \in {Accept(br, arrived)}})

(***************************************************************************)
(* dllmain.cpp: the interceptor.  hk holds g_hooked, g_originalBytes, the  *)
(* five bytes at GAME_LOOP_ADDR (code) and whether the process has         *)
(* faulted.                                                                *)
(***************************************************************************)
GAME_LOOP_ADDR == 4531792

\* static GameLoopFunc g_originalGameLoop = nullptr, never assigned
g_originalGameLoop == 0

\* jumpCode: 0xE9 and the four bytes, low first, of the int
\* relativeOffset = hookAddr - GAME_LOOP_ADDR - 5 (>> on a negative int
\* shifts the sign in, as \div rounds down)
JumpCode(hookAddr) ==
    LET relativeOffset == hookAddr - GAME_LOOP_ADDR - 5
    IN  <<233,
          relativeOffset % 256,
          (relativeOffset \div 256) % 256,
          (relativeOffset \div 65536) % 256,
          (relativeOffset \div 16777216) % 256>>

HookInit(origCode) ==
    [g_hooked |-> FALSE, g_originalBytes |-> <<0, 0, 0, 0, 0>>,
     code |-> origCode, faulted |-> FALSE]

\* InstallHook without its if (g_hooked) return true
InstallHook_NoGuard(hk, hookAddr, protect) ==
    LET saved == [hk EXCEPT !.g_originalBytes = hk.code]
    IN  IF ~protect THEN [saved EXCEPT !.faulted = TRUE]
        ELSE [saved EXCEPT !.code = JumpCode(hookAddr), !.g_hooked = TRUE]

\* InstallHook(); protect is whether VirtualProtect makes the code page
\* writable: its result is not looked at, and the memcpy to a page that is
\* not writable faults, which ends the process
InstallHook(hk, hookAddr, protect) ==
    LET saved == [hk EXCEPT !.g_originalBytes = hk.code]
    IN  IF hk.g_hooked THEN hk
        ELSE IF ~protect THEN [saved EXCEPT !.faulted = TRUE]
        ELSE [saved EXCEPT !.code = JumpCode(hookAddr), !.g_hooked = TRUE]

\* UninstallHook()
UninstallHook(hk, protect) ==
    IF ~hk.g_hooked THEN hk
    ELSE IF ~protect THEN [hk EXCEPT !.faulted = TRUE]
    ELSE [hk EXCEPT !.code = hk.g_originalBytes, !.g_hooked = FALSE]

(***************************************************************************)
(* The system: the target process with the DLL in it.  Everything runs on  *)
(* the target's main thread; pc is where that thread is:                   *)
(*   "game"    in the target's code, outside its loop function             *)
(*   "ticked"  in HookedGameLoop, ProcessCommands has returned             *)
(*   "looped"  back in the main loop after a pass through GAME_LOOP_ADDR   *)
(***************************************************************************)
VARIABLES
    mem,          \* the target's memory
    br,           \* the bridge's globals and its sockets
    hk,           \* the interceptor's globals and the patched bytes
    pc,           \* where the main thread is
    pendingTail,  \* the line the connected client has begun and not ended
    lastTick,     \* what the ProcessCommands of this pass did
    lastIter,     \* this pass of the main loop through GAME_LOOP_ADDR
    backlog       \* connections waiting on the listener to be accepted

vars == <<mem, br, hk, pc, pendingTail, lastTick, lastIter, backlog>>

\* listen(g_serverSocket, 1)
LISTEN_BACKLOG == 1

\* where the loader put HookedGameLoop: below GAME_LOOP_ADDR, so that
\* relativeOffset is negative
HOOK_ADDR == 3477504

\* the start of the target's loop function (push ebp; mov ebp, esp; ...)
ORIG_CODE == <<85, 139, 236, 131, 228>>

\* a pass through the main loop: whether it went through the hook, and how
\* often the bridge's tick and the original loop code ran in it
Iter(viaHook, ticks, originals) ==
    [viaHook |-> viaHook, ticks |-> ticks, originals |-> originals]

NoIter == Iter(FALSE, 0, 0)

Init ==
    /\ mem = NoSim
    /\ br = BridgeInit
    /\ hk = HookInit(ORIG_CODE)
    /\ pc = "game"
    /\ pendingTail = <<>>
    /\ lastTick = NoTick
    /\ lastIter = NoIter
    /\ backlog = 0

\* the process has not faulted and is not inside a pass of the loop
Running == ~hk.faulted /\ pc = "game"

\* Bridge::Initialize(port), called on its own
InitializeCall ==
    /\ Running
    /\ \E outcome \in InitializeOutcomes : br' = Initialize(br, outcome).br
    /\ UNCHANGED <<mem, hk, pc, pendingTail, lastTick, lastIter, backlog>>

\* Bridge::Shutdown(), called on its own
ShutdownCall ==
    /\ Running
    /\ br' = Shutdown(br)
    /\ pendingTail' = <<>>
    /\ backlog' = 0
    /\ UNCHANGED <<mem, hk, pc, lastTick, lastIter>>

InstallHookCall ==
    /\ Running
    /\ \E protect \in BOOLEAN : hk' = InstallHook(hk, HOOK_ADDR, protect)
    /\ UNCHANGED <<mem, br, pc, pendingTail, lastTick, lastIter, backlog>>

UninstallHookCall ==
    /\ Running
    /\ \E protect \in BOOLEAN : hk' = UninstallHook(hk, protect)
    /\ UNCHANGED <<mem, br, pc, pendingTail, lastTick, lastIter, backlog>>

\* DLL_PROCESS_ATTACH that installs the hook whatever Initialize returned
DllAttach_InstallsAnyway ==
    /\ Running
    /\ \E outcome \in InitializeOutcomes, protect \in BOOLEAN :
          /\ br' = Initialize(br, outcome).br
          /\ hk' = InstallHook(hk, HOOK_ADDR, protect)
    /\ UNCHANGED <<mem, pc, pendingTail, lastTick, lastIter, backlog>>

\* DllMain(DLL_PROCESS_ATTACH): Initialize(12345), then InstallHook if it
\* returned true
DllAttach ==
    /\ Running
    /\ \E outcome \in InitializeOutcomes, protect \in BOOLEAN :
          LET r == Initialize(br, outcome)
          IN  /\ br' = r.br
              /\ hk' = IF r.ret THEN InstallHook(hk, HOOK_ADDR, protect) ELSE hk
    /\ UNCHANGED <<mem, pc, pendingTail, lastTick, lastIter, backlog>>

\* DllMain(DLL_PROCESS_DETACH): UninstallHook, then Shutdown, which a fault
\* in UninstallHook keeps from running
DllDetach ==
    /\ Running
    /\ \E protect \in BOOLEAN :
          LET h == UninstallHook(hk, protect)
          IN  /\ hk' = h
              /\ br' = IF h.faulted THEN br ELSE Shutdown(br)
              /\ pendingTail' = IF h.faulted THEN pendingTail ELSE <<>>
              /\ backlog' = IF h.faulted THEN backlog ELSE 0
    /\ UNCHANGED <<mem, pc, lastTick, lastIter>>

\* the target's own code changes its memory
TargetRuns ==
    /\ Running
    /\ \E img \in MemImages : mem' = img
    /\ UNCHANGED <<br, hk, pc, pendingTail, lastTick, lastIter, backlog>>

\* a client connects to the listening socket and waits to be accepted
ClientConnects ==
    /\ Running
    /\ br.g_initialized
    /\ backlog < LISTEN_BACKLOG
    /\ backlog' = backlog + 1
    /\ UNCHANGED <<mem, br, hk, pc, pendingTail, lastTick, lastIter>>

\* what recv can return in this tick: something only when a client is, or
\* is about to be, connected
Receives(arrived) ==
    IF br.g_initialized /\ (br.g_clientSocket # INVALID_SOCKET \/ arrived)
    THEN {r \in RecvResults :
            r.kind = "data" => Len(Unfinished(pendingTail \o r.data)) <= MaxPending}
    ELSE {[kind |-> "wouldblock", data |-> <<>>]}

\* the main loop reaches GAME_LOOP_ADDR with the jump written there:
\* HookedGameLoop runs ProcessCommands
HookedGameLoop ==
    /\ Running
    /\ hk.code = JumpCode(HOOK_ADDR)
    /\ \E arrived \in {backlog > 0} :
         \E rcv \in Receives(arrived) :
           \E r \in {ProcessCommands(br, mem, pendingTail, arrived, rcv)} :
               /\ LivePlants(r.mem) <= MaxLive
               /\ br' = r.br
               /\ mem' = r.mem
               /\ pendingTail' = r.tail
               /\ lastTick' = r.tick
               /\ backlog' = IF r.tick.accept = "accepted" THEN backlog - 1 ELSE backlog
    /\ pc' = "ticked"
    /\ lastIter' = Iter(TRUE, 1, 0)
    /\ UNCHANGED hk

\* the rest of HookedGameLoop: if (g_originalGameLoop) g_originalGameLoop();
\* then the return, to the caller of the loop function
HookedGameLoopReturn ==
    /\ pc = "ticked"
    /\ pc' = "looped"
    /\ lastIter' = [lastIter EXCEPT !.originals = IF g_originalGameLoop # 0 THEN @ + 1 ELSE @]
    /\ lastTick' = NoTick
    /\ UNCHANGED <<mem, br, hk, pendingTail, backlog>>

\* the main loop reaches GAME_LOOP_ADDR with the original bytes there: the
\* target's loop code runs, the bridge does not
OriginalGameLoop ==
    /\ Running
    /\ hk.code = ORIG_CODE
    /\ hk.code # JumpCode(HOOK_ADDR)
    /\ pc' = "looped"
    /\ lastIter' = Iter(FALSE, 0, 1)
    /\ UNCHANGED <<mem, br, hk, pendingTail, lastTick, backlog>>

\* the main loop goes on to its next pass
MainLoop ==
    /\ pc = "looped"
    /\ pc' = "game"
    /\ lastIter' = NoIter
    /\ UNCHANGED <<mem, br, hk, pendingTail, lastTick, backlog>>

Next ==
    \/ InitializeCall
    \/ ShutdownCall
    \/ InstallHookCall
    \/ UninstallHookCall
    \/ DllAttach
    \/ DllDetach
    \/ TargetRuns
    \/ ClientConnects
    \/ HookedGameLoop
    \/ HookedGameLoopReturn
    \/ OriginalGameLoop
    \/ MainLoop

Spec == Init /\ [][Next]_vars

\* the DLL as the loader drives it: the bridge and the interceptor are
\* reached through DllMain only
NextDll ==
    \/ DllAttach
    \/ DllDetach
    \/ TargetRuns
    \/ ClientConnects
    \/ HookedGameLoop
    \/ HookedGameLoopReturn
    \/ OriginalGameLoop
    \/ MainLoop

SpecDll == Init /\ [][NextDll]_vars

(***************************************************************************)
(* What the protocol says, for the properties below                        *)
(***************************************************************************)
\* the commands dispatched in this pass, and their entries as a set
Log == lastTick.log

Entries == {Log[i] : i \in 1 .. Len(Log)}

\* the white-space separated tokens of a line
RECURSIVE Tokens(_)
Tokens(s) ==
    LET t == SkipWs(s)
        n == TokenLen(t)
    IN  IF n = 0 THEN <<>>
        ELSE <<SubSeq(t, 1, n)>> \o Tokens(SubSeq(t, n + 1, Len(t)))

\* the verb of a line: its first token, <<>> if it has none
VerbOf(cmd) == IF Tokens(cmd) = <<>> THEN <<>> ELSE Tokens(cmd)[1]

\* the non-empty commands a byte stream holds: its complete lines, each
\* without its line feed and without one carriage return before it
RECURSIVE CommandsIn(_)
CommandsIn(s) ==
    LET pos == Find(s, LF)
        line == SubSeq(s, 1, pos - 1)
        cmd == IF line # <<>> /\ line[Len(line)] = CR
               THEN SubSeq(line, 1, Len(line) - 1) ELSE line
    IN  IF pos = 0 THEN <<>>
        ELSE (IF cmd = <<>> THEN <<>> ELSE <<cmd>>)
               \o CommandsIn(SubSeq(s, pos + 1, Len(s)))

\* the commands of the entries of a log
CommandsOf(log) == [i \in 1 .. Len(log) |-> log[i].cmd]

\* the responses sent for the entries of a log, in order
RECURSIVE ResponsesOf(_)
ResponsesOf(log) ==
    IF log = <<>> THEN <<>> ELSE Head(log).sent \o ResponsesOf(Tail(log))

\* the board resolves in m
BoardResolved(m) == m.base # 0 /\ m.board # 0

\* the records entity iteration covers: the first min(plantMax, SCAN_LIMIT)
\* of a plant array that is there
Scanned(m) ==
    IF ~BoardResolved(m) \/ m.b.plantArray = 0 THEN {}
    ELSE {i \in SlotIdx : i < m.b.plantMax /\ i < SCAN_LIMIT}

\* the scanned records that are live and at (row, col)
LiveAt(m, row, col) ==
    {i \in Scanned(m) :
        LET rec == Rec(m.b.plants, i)
        IN  ~rec.dead /\ rec.row = row /\ rec.col = col}

(***************************************************************************)
(* C1.  A read that starts at a line boundary and holds several complete   *)
(* commands: every command in it is dispatched, in arrival order, and one  *)
(* response is sent per command, in that order, within the same tick;      *)
(* PLANT 3 5 2 and SHOVEL 3 5 in one packet, with the board resolved and a *)
(* live plant at (3, 5), are answered OK and OK.                           *)
(***************************************************************************)
C1_EveryCommandOfTheReadAnswered ==
    (lastTick.kind = "data" /\ lastTick.tail = <<>>) =>
        /\ CommandsOf(Log) = CommandsIn(lastTick.data)
        /\ Len(ResponsesOf(Log)) = Len(CommandsIn(lastTick.data))
        /\ \A i \in 1 .. Len(Log) : Log[i].sent = <<Log[i].resp>>
        /\ (/\ lastTick.data = L_PLANT \o <<LF>> \o L_SHOVEL \o <<LF>>
            /\ BoardResolved(Log[1].before)
            /\ LiveAt(Log[1].before, 3, 5) # {})
             => ResponsesOf(Log) = <<"OK\n", "OK\n">>

\* the same for the reads without a NUL byte, which holds
C1_EveryCommandAnsweredWithoutNul ==
    Find(lastTick.data, NUL) = 0 => C1_EveryCommandOfTheReadAnswered

\* the packet of the scenario was read and answered OK, OK
C1_Scenario ==
    /\ lastTick.kind = "data"
    /\ lastTick.tail = <<>>
    /\ lastTick.data = L_PLANT \o <<LF>> \o L_SHOVEL \o <<LF>>
    /\ LiveAt(Log[1].before, 3, 5) # {}
    /\ ResponsesOf(Log) = <<"OK\n", "OK\n">>

(***************************************************************************)
(* C2.  A line whose first part came in an earlier read is reassembled:    *)
(* when a read follows an unfinished line, the commands dispatched are     *)
(* those of the unfinished line followed by the bytes read, each once.     *)
(***************************************************************************)
C2_PartialLineReassembled ==
    (lastTick.kind = "data" /\ lastTick.tail # <<>>) =>
        /\ CommandsOf(Log) = CommandsIn(lastTick.tail \o lastTick.data)
        /\ Len(ResponsesOf(Log)) = Len(CommandsIn(lastTick.tail \o lastTick.data))

\* the rest of a line that was begun has been read
C2_RestArrived ==
    /\ lastTick.kind = "data"
    /\ lastTick.tail # <<>>
    /\ Find(lastTick.data, LF) # 0

(***************************************************************************)
(* C3.  A pass of the main loop that went through the hook has run the     *)
(* bridge's tick exactly once and the original loop code exactly once.     *)
(***************************************************************************)
C3_TickAndOriginalOncePerPass ==
    (pc = "looped" /\ lastIter.viaHook) =>
        (lastIter.ticks = 1 /\ lastIter.originals = 1)

\* a pass through the hook has returned, with the interceptor installed
C3_HookedPassDone == pc = "looped" /\ lastIter.viaHook /\ hk.g_hooked

(***************************************************************************)
(* C4.  Whenever the interceptor is not installed, the five bytes at the   *)
(* interception point are the ones from before any install; while it is    *)
(* installed the saved bytes are those original bytes, never the patched   *)
(* ones, and the jump is in place.                                         *)
(***************************************************************************)
C4_UninstalledMeansOriginalBytes ==
    /\ ~hk.g_hooked => hk.code = ORIG_CODE
    /\ hk.g_hooked => (hk.g_originalBytes = ORIG_CODE /\ hk.code = JumpCode(HOOK_ADDR))

\* uninstalled again after an install that ran to its end
C4_InstalledThenUninstalled ==
    /\ ~hk.g_hooked
    /\ ~hk.faulted
    /\ hk.g_originalBytes = ORIG_CODE
    /\ hk.code = ORIG_CODE

(***************************************************************************)
(* C5.  No command reads through a null pointer, and an action verb whose  *)
(* required pointer (the application root; the board for PLANT and SHOVEL; *)
(* the plant array for SHOVEL; the seed chooser for CHOOSE and ROCK) is    *)
(* null is answered with that verb's failure response, calls no routine of *)
(* the target and changes nothing.                                         *)
(***************************************************************************)
ActionVerbs ==
    {V_PLANT, V_SHOVEL, V_FIRE, V_RESET, V_ENTER, V_CHOOSE, V_ROCK, V_BACK}

FailureOf(verb) ==
    CASE verb = V_RESET -> "ERR Failed to reset\n"
      [] verb = V_ROCK -> "ERR Failed to start\n"
      [] verb = V_BACK -> "ERR Failed to back\n"
      [] OTHER -> "ERR Invalid parameters\n"

RequiredNull(verb, m) ==
    \/ m.base = 0
    \/ verb \in {V_PLANT, V_SHOVEL} /\ m.board = 0
    \/ verb = V_SHOVEL /\ m.b.plantArray = 0
    \/ verb \in {V_CHOOSE, V_ROCK} /\ m.seedChooser = 0

C5_NullPointerFailsSoft ==
    \A e \in Entries :
        /\ 0 \notin e.derefs
        /\ (VerbOf(e.cmd) \in ActionVerbs /\ RequiredNull(VerbOf(e.cmd), e.before))
             => /\ e.sent = <<FailureOf(VerbOf(e.cmd))>>
                /\ e.calls = <<>>
                /\ e.mem = e.before

\* SHOVEL 3 5 right after the command that made the board pointer null
C5_BoardGoneBetweenCommands ==
    \E i \in 2 .. Len(Log) :
        /\ Log[i].cmd = L_SHOVEL
        /\ Log[i - 1].before.board # 0
        /\ Log[i].before.base # 0
        /\ Log[i].before.board = 0
        /\ Log[i].sent = <<"ERR Invalid parameters\n">>

(***************************************************************************)
(* C6.  STATE is answered with one line holding the eight keys sun, wave,  *)
(* total_waves, scene, game_clock, in_game, zombie_count, plant_count in   *)
(* this order; when the application root is null the line is the snapshot  *)
(* of zeros with in_game false.                                            *)
(***************************************************************************)
StateKeys ==
    << "\"sun\":", "\"wave\":", "\"total_waves\":", "\"scene\":",
       "\"game_clock\":", "\"in_game\":", "\"zombie_count\":", "\"plant_count\":" >>

ZeroSnapshot ==
    "{\"sun\":0,\"wave\":0,\"total_waves\":0,\"scene\":0,\"game_clock\":0,\"in_game\":false,\"zombie_count\":0,\"plant_count\":0}"

C6_SnapshotShape ==
    \A e \in Entries :
        VerbOf(e.cmd) = V_STATE =>
            LET p == StatePieces(e.before)
            IN  /\ e.sent = <<Joined(p, 1) \o "\n">>
                /\ Len(p) = 3 * Len(StateKeys) + 1
                /\ p[1] = "{"
                /\ p[Len(p)] = "}"
                /\ \A k \in 1 .. Len(StateKeys) :
                       /\ p[3 * k - 1] = StateKeys[k]
                       /\ k < Len(StateKeys) => p[3 * k + 1] = ","
                /\ p[18] \in {"true", "false"}
                /\ e.before.base = 0 => e.sent = <<ZeroSnapshot \o "\n">>
                /\ e.mem = e.before

\* STATE answered while the application root is null
C6_StateWithoutRoot ==
    \E e \in Entries :
        /\ e.cmd = L_STATE
        /\ e.before.base = 0
        /\ e.sent = <<ZeroSnapshot \o "\n">>

(***************************************************************************)
(* C7.  CHOOSE and ROCK outside UI phase 2, and BACK outside UI phase 3,   *)
(* are answered ERR Invalid parameters, ERR Failed to start and ERR Failed *)
(* to back, and no routine of the target is called.                        *)
(***************************************************************************)
\* the UI phase, 0 while the application root is null
Phase(m) == IF m.base = 0 THEN 0 ELSE m.gameUI

C7_PhaseGating ==
    \A e \in Entries :
        /\ (VerbOf(e.cmd) = V_CHOOSE /\ Phase(e.before) # 2)
             => (e.sent = <<"ERR Invalid parameters\n">> /\ e.calls = <<>>)
        /\ (VerbOf(e.cmd) = V_ROCK /\ Phase(e.before) # 2)
             => (e.sent = <<"ERR Failed to start\n">> /\ e.calls = <<>>)
        /\ (VerbOf(e.cmd) = V_BACK /\ Phase(e.before) # 3)
             => (e.sent = <<"ERR Failed to back\n">> /\ e.calls = <<>>)
        /\ (VerbOf(e.cmd) \in {V_CHOOSE, V_ROCK, V_BACK} /\ e.calls = <<>>)
             => e.mem = e.before

\* CHOOSE 2 refused in phase 3 although the seed chooser is there
C7_ChooseOutsidePhase ==
    \E e \in Entries :
        /\ e.cmd = L_CHOOSE
        /\ e.before.base # 0
        /\ e.before.seedChooser # 0
        /\ e.before.gameUI = 3
        /\ e.sent = <<"ERR Invalid parameters\n">>

(***************************************************************************)
(* C8.  SHOVEL r c with the board resolved: when no live plant is at       *)
(* (r, c) the response is ERR Invalid parameters and the removal routine   *)
(* is not called; when exactly one is, the response is OK, the routine is  *)
(* called once, that plant is dead afterwards and the plant count STATE    *)
(* reports is one lower than before.                                       *)
(***************************************************************************)
ShovelLines == {<<L_SHOVEL, 3, 5>>, <<L_SHOVEL11, 1, 1>>}

ShovelAsPromised(e, row, col) ==
    LET hits == LiveAt(e.before, row, col)
    IN  /\ hits = {} =>
            /\ e.sent = <<"ERR Invalid parameters\n">>
            /\ e.calls = <<>>
            /\ e.mem = e.before
        /\ Cardinality(hits) = 1 =>
            /\ e.sent = <<"OK\n">>
            /\ Len(e.calls) = 1
            /\ \A i \in hits : Rec(e.mem.b.plants, i).dead
            /\ LiveAt(e.mem, row, col) = {}
            /\ GameStateInfo(e.mem).plant_count
                 = GameStateInfo(e.before).plant_count - 1

C8_ShovelOutcomes ==
    \A e \in Entries : \A l \in ShovelLines :
        (e.cmd = l[1] /\ BoardResolved(e.before))
            => ShovelAsPromised(e, l[2], l[3])

\* the same while the target reports at most SCAN_LIMIT plant records,
\* which holds
C8_ShovelOutcomesWithinScanLimit ==
    \A e \in Entries : \A l \in ShovelLines :
        (e.cmd = l[1] /\ BoardResolved(e.before)
           /\ e.before.b.plantMax <= SCAN_LIMIT)
            => ShovelAsPromised(e, l[2], l[3])

\* one live plant at (3, 5) was removed
C8_OneMatchRemoved ==
    \E e \in Entries :
        /\ e.cmd = L_SHOVEL
        /\ BoardResolved(e.before)
        /\ Cardinality(LiveAt(e.before, 3, 5)) = 1
        /\ e.sent = <<"OK\n">>

(***************************************************************************)
(* C9.  A known verb with too few arguments, too many arguments or a       *)
(* non-integer token where an integer is required is answered with an      *)
(* error response and the action is never invoked.                         *)
(***************************************************************************)
KnownVerbs == ActionVerbs \cup {V_STATE}

Arity(verb) ==
    CASE verb = V_PLANT -> 3
      [] verb \in {V_SHOVEL, V_FIRE} -> 2
      [] verb \in {V_ENTER, V_CHOOSE} -> 1
      [] OTHER -> 0

\* an optional sign and then digits only
IsIntToken(tok) ==
    LET body == IF tok # <<>> /\ tok[1] \in {"-", "+"} THEN Tail(tok) ELSE tok
    IN  body # <<>> /\ \A i \in 1 .. Len(body) : body[i] \in Digits

WellFormed(cmd) ==
    LET t == Tokens(cmd)
    IN  /\ t # <<>>
        /\ t[1] \in KnownVerbs
        /\ Len(t) = 1 + Arity(t[1])
        /\ \A i \in 2 .. Len(t) : IsIntToken(t[i])

ErrorResponses ==
    {"ERR Invalid parameters\n", "ERR Failed to reset\n", "ERR Failed to start\n",
     "ERR Failed to back\n", "ERR Unknown command\n"}

RejectedUninvoked(e) ==
    /\ e.sent \in {<<r>> : r \in ErrorResponses}
    /\ e.invoked = <<>>
    /\ e.calls = <<>>
    /\ e.mem = e.before

C9_MalformedNeverInvoked ==
    \A e \in Entries :
        (VerbOf(e.cmd) \in KnownVerbs /\ ~WellFormed(e.cmd)) => RejectedUninvoked(e)

\* the part that holds: a required argument that is missing, or that does
\* not start as an integer, is rejected with ERR Invalid parameters
StartsAsInt(tok) ==
    LET body == IF tok # <<>> /\ tok[1] \in {"-", "+"} THEN Tail(tok) ELSE tok
    IN  body # <<>> /\ body[1] \in Digits

C9_MissingOrNotANumberRejected ==
    \A e \in Entries :
        LET t == Tokens(e.cmd)
        IN  (/\ VerbOf(e.cmd) \in KnownVerbs
             /\ \E i \in 2 .. (1 + Arity(t[1])) : i > Len(t) \/ ~StartsAsInt(t[i]))
              => (RejectedUninvoked(e) /\ e.sent = <<"ERR Invalid parameters\n">>)

(***************************************************************************)
(* C10.  Every dispatched line gets exactly one newline-terminated         *)
(* response from the table: OK or ERR Invalid parameters for PLANT,        *)
(* SHOVEL, ENTER and CHOOSE; ERR Invalid parameters for FIRE; OK or ERR    *)
(* Failed to reset for RESET; OK or ERR Failed to start for ROCK; OK or    *)
(* ERR Failed to back for BACK; the snapshot line for STATE; and ERR       *)
(* Unknown command for any other first token, lower-case verbs included.   *)
(***************************************************************************)
Allowed(verb, m) ==
    CASE verb \in {V_PLANT, V_SHOVEL, V_ENTER, V_CHOOSE}
           -> {"OK\n", "ERR Invalid parameters\n"}
      [] verb = V_FIRE -> {"ERR Invalid parameters\n"}
      [] verb = V_RESET -> {"OK\n", "ERR Failed to reset\n"}
      [] verb = V_ROCK -> {"OK\n", "ERR Failed to start\n"}
      [] verb = V_BACK -> {"OK\n", "ERR Failed to back\n"}
      [] verb = V_STATE -> {GetGameState(m) \o "\n"}
      [] OTHER -> {"ERR Unknown command\n"}

C10_ResponseTable ==
    \A e \in Entries :
        /\ e.sent = <<e.resp>>
        /\ e.resp \in Allowed(VerbOf(e.cmd), e.before)
        /\ VerbOf(e.cmd) \notin KnownVerbs => (e.calls = <<>> /\ e.mem = e.before)

\* plant 1 2 3 refused as unknown although PLANT would have been served
C10_LowerCaseVerbUnknown ==
    \E e \in Entries :
        /\ e.cmd = L_LOWER
        /\ BoardResolved(e.before)
        /\ e.sent = <<"ERR Unknown command\n">>

(***************************************************************************)
(* C11.  The bridge holds at most one accepted connection.  A tick that    *)
(* begins with a client connected does not call accept, so a connection    *)
(* that waits stays waiting; a tick of the initialized bridge that begins  *)
(* without a client calls accept and takes the connection that waits.      *)
(***************************************************************************)
\* the handles of accepted connections that are open
ClientHandles == br.open \ {br.g_serverSocket}

C11_OneClientAtATime ==
    /\ Cardinality(ClientHandles) <= 1
    /\ ClientHandles \subseteq {br.g_clientSocket}
    /\ pc = "ticked" =>
        /\ lastTick.client # INVALID_SOCKET =>
            /\ lastTick.accept = "skipped"
            /\ br.g_clientSocket \in {lastTick.client, INVALID_SOCKET}
            /\ lastTick.waiting => backlog > 0
        /\ (lastTick.kind # "off" /\ lastTick.client = INVALID_SOCKET) =>
            /\ lastTick.accept \in {"nobody", "accepted"}
            /\ lastTick.waiting <=> lastTick.accept = "accepted"

\* a tick with a client connected has left a second connection waiting
C11_SecondConnectionWaits ==
    /\ pc = "ticked"
    /\ lastTick.client # INVALID_SOCKET
    /\ lastTick.waiting
    /\ br.g_clientSocket = lastTick.client
    /\ backlog > 0

(***************************************************************************)
(* C12.  A tick whose read reports the connection closed, or an error      *)
(* other than would-block, closes and forgets the client, dispatches       *)
(* nothing and sends nothing; a tick whose read reports would-block keeps  *)
(* the connection and dispatches nothing; a tick that begins without a     *)
(* client calls accept again.                                              *)
(***************************************************************************)
C12_FaultDropsWouldBlockKeeps ==
    pc = "ticked" =>
        /\ lastTick.kind \in {"closed", "error"} =>
            /\ br.g_clientSocket = INVALID_SOCKET
            /\ ClientHandles = {}
            /\ Log = <<>>
            /\ ResponsesOf(Log) = <<>>
        /\ lastTick.kind = "wouldblock" =>
            /\ br.g_clientSocket # INVALID_SOCKET
            /\ br.g_clientSocket \in br.open
            /\ lastTick.client # INVALID_SOCKET => br.g_clientSocket = lastTick.client
            /\ pendingTail = lastTick.tail
            /\ Log = <<>>
        /\ (lastTick.kind # "off" /\ lastTick.client = INVALID_SOCKET) =>
            lastTick.accept # "skipped"

\* a read error on a connected client dropped the connection
C12_ReadErrorDropsClient ==
    /\ pc = "ticked"
    /\ lastTick.kind = "error"
    /\ lastTick.client # INVALID_SOCKET
    /\ lastTick.client \notin br.open
    /\ br.g_clientSocket = INVALID_SOCKET

(***************************************************************************)
(* C13.  A change of the memory protection that fails makes InstallHook or *)
(* UninstallHook return with a failure: the process goes on, nothing was   *)
(* written to the page that stayed protected, and the jump is at the       *)
(* interception point exactly while the interceptor is marked installed.   *)
(***************************************************************************)
C13_ProtectionFailureReported ==
    /\ ~hk.faulted
    /\ hk.g_hooked <=> hk.code = JumpCode(HOOK_ADDR)
    /\ ~hk.g_hooked <=> hk.code = ORIG_CODE

\* the part that holds: the bytes and the mark agree, faulted or not
C13_NeverHalfWritten ==
    /\ hk.g_hooked <=> hk.code = JumpCode(HOOK_ADDR)
    /\ ~hk.g_hooked <=> hk.code = ORIG_CODE

(***************************************************************************)
(* C14.  With the board resolved, the plant_count and zombie_count of a    *)
(* STATE response are the numbers of records with a clear dead flag among  *)
(* the first min(declared capacity, SCAN_LIMIT) records of the array, and  *)
(* SHOVEL finds a plant exactly when a live one at the position is in that *)
(* prefix: a capacity above SCAN_LIMIT is clamped, not read as no records. *)
(***************************************************************************)
\* the live records among the first min(max, SCAN_LIMIT) of an array
LiveIn(recs, array, max) ==
    IF array = 0 THEN {}
    ELSE {i \in SlotIdx : i < max /\ i < SCAN_LIMIT /\ ~Rec(recs, i).dead}

CountsOfPrefix(e) ==
    LET b == e.before.b
        info == GameStateInfo(e.before)
    IN  /\ e.sent = <<GetGameState(e.before) \o "\n">>
        /\ info.plant_count = Cardinality(LiveIn(b.plants, b.plantArray, b.plantMax))
        /\ info.zombie_count = Cardinality(LiveIn(b.zombies, b.zombieArray, b.zombieMax))

C14_CapacityClamped ==
    \A e \in Entries :
        /\ (VerbOf(e.cmd) = V_STATE /\ BoardResolved(e.before)) => CountsOfPrefix(e)
        /\ \A l \in ShovelLines :
               (e.cmd = l[1] /\ BoardResolved(e.before))
                 => (e.sent = <<"OK\n">> <=> LiveAt(e.before, l[2], l[3]) # {})

\* the same while the declared capacities are at most SCAN_LIMIT, which
\* holds
C14_CountsWithinScanLimit ==
    \A e \in Entries :
        (/\ VerbOf(e.cmd) = V_STATE
         /\ BoardResolved(e.before)
         /\ e.before.b.plantMax <= SCAN_LIMIT
         /\ e.before.b.zombieMax <= SCAN_LIMIT) => CountsOfPrefix(e)

\* SHOVEL clamps: it finds the plant although the capacity is above
\* SCAN_LIMIT
C14_ShovelClamps ==
    \E e \in Entries :
        /\ e.cmd = L_SHOVEL
        /\ e.before.b.plantMax > SCAN_LIMIT
        /\ e.sent = <<"OK\n">>

(***************************************************************************)
(* C15.  Every call of ProcessCommands returns to HookedGameLoop: without  *)
(* a client, or without data, it returns at once, having dispatched        *)
(* nothing; with data, the line loop makes at most as many passes as the   *)
(* data read has line feeds, and dispatches at most one command per pass.  *)
(***************************************************************************)
NewlinesIn(data) == Cardinality({i \in 1 .. Len(data) : data[i] = LF})

C15_TickReturns ==
    /\ pc = "ticked" <=> lastTick.kind # "none"
    /\ pc = "ticked" =>
        /\ lastTick.kind \in {"off", "idle", "wouldblock", "closed", "error", "data"}
        /\ lastTick.kind # "data" => (lastTick.passes = 0 /\ Log = <<>>)
        /\ lastTick.kind = "data" =>
            /\ lastTick.passes <= NewlinesIn(lastTick.data)
            /\ Len(Log) <= lastTick.passes

\* a read of three lines, one of them empty: three passes, two commands
C15_ThreePasses ==
    /\ pc = "ticked"
    /\ lastTick.kind = "data"
    /\ lastTick.passes = NewlinesIn(lastTick.data)
    /\ lastTick.passes >= 3
    /\ Len(Log) < lastTick.passes

\* a tick without a client returned at once
C15_IdleTickReturned ==
    pc = "ticked" /\ lastTick.kind = "idle" /\ lastTick.passes = 0

(***************************************************************************)
(* C16.  SHOVEL r c with live plants at (r, c): the removal routine is     *)
(* called exactly once, with the address of the matching live record of    *)
(* the lowest index; that record is dead afterwards and every other record *)
(* is as it was, the dead ones at (r, c) included.                         *)
(***************************************************************************)
Lowest(S) == CHOOSE i \in S : \A j \in S : i <= j

C16_FirstLiveMatchRemoved ==
    \A e \in Entries : \A l \in ShovelLines :
        (e.cmd = l[1] /\ BoardResolved(e.before) /\ LiveAt(e.before, l[2], l[3]) # {})
            => LET first == Lowest(LiveAt(e.before, l[2], l[3]))
               IN  /\ e.calls = <<[fn |-> "RemovePlant",
                                   args |-> <<e.before.b.plantArray + first * PLANT_SIZE>>]>>
                   /\ Rec(e.mem.b.plants, first).dead
                   /\ \A i \in SlotIdx \ {first} :
                          Rec(e.mem.b.plants, i) = Rec(e.before.b.plants, i)

\* two live plants at (3, 5) behind a dead record at (3, 5): one removed
C16_SeveralMatches ==
    \E e \in Entries :
        /\ e.cmd = L_SHOVEL
        /\ Cardinality(LiveAt(e.before, 3, 5)) >= 2
        /\ \E i \in SlotIdx :
               /\ i < Lowest(LiveAt(e.before, 3, 5))
               /\ Rec(e.before.b.plants, i) = [row |-> 3, col |-> 5, dead |-> TRUE]
        /\ Cardinality(LiveAt(e.mem, 3, 5)) = Cardinality(LiveAt(e.before, 3, 5)) - 1
        /\ e.sent = <<"OK\n">>

(***************************************************************************)
(* C17.  For an action verb the response is OK exactly when one call of a  *)
(* routine of the target was issued for the command, and then the verb's   *)
(* precondition held; every other response comes with no call and no       *)
(* change.  PLANT with three integers is answered OK whenever the board    *)
(* resolves, whatever the UI phase and the values.                         *)
(***************************************************************************)
Precondition(verb, m) ==
    /\ ~RequiredNull(verb, m)
    /\ verb # V_FIRE
    /\ verb = V_SHOVEL => m.b.plantMax > 0
    /\ verb \in {V_CHOOSE, V_ROCK} => Phase(m) = 2
    /\ verb = V_BACK => Phase(m) = 3

C17_OkIffOneCall ==
    \A e \in Entries :
        VerbOf(e.cmd) \in ActionVerbs =>
            /\ Len(e.calls) <= 1
            /\ e.sent = <<"OK\n">> <=> Len(e.calls) = 1
            /\ e.sent = <<"OK\n">> => Precondition(VerbOf(e.cmd), e.before)
            /\ e.sent # <<"OK\n">> => (e.calls = <<>> /\ e.mem = e.before)
            /\ (e.cmd \in {L_RESET, L_ENTER, L_CHOOSE, L_ROCK, L_BACK}
                  /\ Precondition(VerbOf(e.cmd), e.before)) => e.sent = <<"OK\n">>
            /\ (/\ VerbOf(e.cmd) = V_PLANT
                /\ Len(Tokens(e.cmd)) = 4
                /\ \A i \in 2 .. 4 : IsIntToken(Tokens(e.cmd)[i])
                /\ BoardResolved(e.before))
                 => (e.sent = <<"OK\n">> /\ e.calls[1].fn = "AddPlant")

\* PLANT 3 5 -7 during card selection: OK, one call of AddPlant
C17_PlantOutsideTheRound ==
    \E e \in Entries :
        /\ e.cmd = L_PLANT_ODD
        /\ BoardResolved(e.before)
        /\ e.before.gameUI = 2
        /\ e.sent = <<"OK\n">>
        /\ e.calls = <<[fn |-> "AddPlant", args |-> <<e.before.board, 5, 3, -7, -1>>]>>

(***************************************************************************)
(* C18.  With the bridge and the interceptor driven by DllMain only: the   *)
(* interceptor is installed, and the jump is at the interception point,    *)
(* only while the bridge is initialized with its listener open, so no tick *)
(* runs on a bridge that is shut down; after an attach whose Initialize    *)
(* failed the interceptor is not installed.                                *)
(***************************************************************************)
C18_HookedOnlyWhileInitialized ==
    /\ hk.g_hooked => br.g_initialized
    /\ hk.code = JumpCode(HOOK_ADDR) =>
           (br.g_initialized /\ br.g_serverSocket \in br.open)
    /\ pc = "ticked" => lastTick.kind # "off"
    /\ ~br.g_initialized => (~hk.g_hooked /\ hk.code = ORIG_CODE)

\* detached after a pass through the hook: interceptor out, bridge shut down
C18_DetachedAfterAttach ==
    /\ ~hk.g_hooked
    /\ hk.g_originalBytes = ORIG_CODE
    /\ ~hk.faulted
    /\ ~br.g_initialized
    /\ br.open = {}

\* a tick ran through the hook on the initialized bridge
C18_TickOnInitializedBridge ==
    pc = "ticked" /\ hk.g_hooked /\ br.g_initialized /\ lastTick.kind = "idle"

(***************************************************************************)
(* C19.  No socket handle is given to closesocket twice, WSACleanup        *)
(* balances WSAStartup, the bridge that is not initialized holds neither a *)
(* listener handle nor a client handle, and the initialized bridge has one *)
(* listener: the open handles are g_serverSocket and g_clientSocket.       *)
(***************************************************************************)
C19_HandlesOwned ==
    /\ br.reclosed = {}
    /\ br.wsa = IF br.g_initialized THEN 1 ELSE 0
    /\ ~br.g_initialized =>
        /\ br.g_serverSocket = INVALID_SOCKET
        /\ br.g_clientSocket = INVALID_SOCKET
        /\ br.open = {}
    /\ br.g_initialized =>
        /\ br.g_serverSocket \in br.open
        /\ br.open \subseteq {br.g_serverSocket, br.g_clientSocket}

\* the part that holds: nothing leaks and the library calls balance
C19_NoLeakAndBalanced ==
    /\ br.wsa = IF br.g_initialized THEN 1 ELSE 0
    /\ ~br.g_initialized => (br.g_clientSocket = INVALID_SOCKET /\ br.open = {})
    /\ br.g_initialized =>
        /\ br.g_serverSocket \in br.open
        /\ br.open \subseteq {br.g_serverSocket, br.g_clientSocket}

\* closesocket was given the listener handle a second time
C19_ListenerClosedTwice ==
    /\ br.reclosed # {}
    /\ ~br.g_initialized
    /\ br.g_serverSocket = INVALID_SOCKET

(***************************************************************************)
(* C20.  A complete line that is empty, or a carriage return alone, is     *)
(* consumed without a dispatch and without a response: the responses sent  *)
(* in a tick are as many as the non-empty complete lines of the data read  *)
(* in it; a line of spaces is dispatched and answered ERR Unknown command. *)
(***************************************************************************)
\* the complete lines of the data: the bytes between line feeds
RECURSIVE CompleteLines(_)
CompleteLines(s) ==
    LET pos == Find(s, LF)
    IN  IF pos = 0 THEN <<>>
        ELSE <<SubSeq(s, 1, pos - 1)>> \o CompleteLines(SubSeq(s, pos + 1, Len(s)))

IsEmptyLine(line) == line = <<>> \/ line = <<CR>>

NonEmptyLineCount(s) ==
    Cardinality({i \in 1 .. Len(CompleteLines(s)) : ~IsEmptyLine(CompleteLines(s)[i])})

C20_EmptyLinesUnanswered ==
    lastTick.kind = "data" =>
        /\ Len(ResponsesOf(Log)) = NonEmptyLineCount(lastTick.data)
        /\ \A e \in Entries :
               /\ ~IsEmptyLine(e.cmd)
               /\ e.cmd # <<>> /\ (\A i \in 1 .. Len(e.cmd) : e.cmd[i] = SP)
                    => e.sent = <<"ERR Unknown command\n">>

\* the same for the reads without a NUL byte, which holds
C20_EmptyLinesUnansweredWithoutNul ==
    Find(lastTick.data, NUL) = 0 => C20_EmptyLinesUnanswered

\* STATE, an empty line and BACK in one read: two responses
C20_EmptyLineSkipped ==
    /\ lastTick.kind = "data"
    /\ \E i \in 1 .. Len(CompleteLines(lastTick.data)) :
           IsEmptyLine(CompleteLines(lastTick.data)[i])
    /\ NonEmptyLineCount(lastTick.data) = 2
    /\ Len(ResponsesOf(Log)) = 2

====
